---- MODULE Spec2Model ----
(***************************************************************************)
(* Resource registration and request dispatch of gapi-platform:            *)
(* ResourceManager.CreateResource, Resource.RegisterRoutes,                *)
(* Resource.handleOperation, state.DefaultProvider, state.DefaultProcessor *)
(* and state.validateModel, over a storage engine seen through the GormDB  *)
(* interface.                                                              *)
(***************************************************************************)
EXTENDS Integers, Sequences, FiniteSets, TLC

VARIABLES
    config,    \* Resource.config: Model, Path, Operations
    routes,    \* the (method, pattern, op) handlers RegisterRoutes bound on the router
    phase,     \* "new" before CreateResource, "created", then "serving" once routes are registered
    db,        \* the storage table: primary key -> Name, NoRec where no row
    nextId,    \* the table's auto-increment counter
    reqs,      \* per request slot: the request, the handler's position and locals
    args       \* the arguments of the CreateResource call: model and customConfig

vars == <<config, routes, phase, db, nextId, reqs, args>>

----------------------------------------------------------------------------
(* Bounds and value sets *)

MaxId == 3
MaxCustom == 2

Ids == 1..MaxId
Names == {"x", "y"}
BodyIds == {0, 1, 2}
NoRec == "-"
Slots == {"r1", "r2"}

StatusOK == 200
StatusNoContent == 204
StatusBadRequest == 400
StatusNotFound == 404
StatusInternalServerError == 500

OperationCreate == "create"
OperationUpdate == "update"
OperationDelete == "delete"
OperationGetItem == "get_item"
OperationGetList == "get_list"
Operation == {OperationCreate, OperationUpdate, OperationDelete, OperationGetItem, OperationGetList}

----------------------------------------------------------------------------
(* Values *)

\* A model instance (TestModel{ID uint, Name string}); Zero is reflect.New's zero value.
Zero == [ID |-> 0, Name |-> ""]

\* interface{} values flowing through the pipeline.  "model" is the pointer held in
\* ResourceConfig.Model (its pointee is config.Model.inst); "inst" is a pointer to an
\* instance allocated during the request; "list" is a pointer to a slice.
Nil == [t |-> "nil", inst |-> Zero, list |-> <<>>]
ModelPtr == [t |-> "model", inst |-> Zero, list |-> <<>>]
InstPtr(v) == [t |-> "inst", inst |-> v, list |-> <<>>]
ListPtr(s) == [t |-> "list", inst |-> Zero, list |-> s]

\* error values: fiber.NewError(code, message); NoErr is a nil error
NoErr == [code |-> 0, msg |-> ""]
NewError(code, msg) == [code |-> code, msg |-> msg]

\* request bodies: a JSON object with an optional id (0: omitted) and a name, or
\* something BodyParser rejects
BadBody == [wf |-> FALSE, ID |-> 0, Name |-> ""]
Bodies == {BadBody} \cup [wf : {TRUE}, ID : BodyIds, Name : Names]

Max(a, b) == IF a >= b THEN a ELSE b

----------------------------------------------------------------------------
(* The storage engine behind the GormDB interface (First, Find, Create, Save,    *)
(* Delete).  Every call may fail with an engine error (fault); each operator     *)
(* returns the call's error ("" for none), the table and counter after the call, *)
(* and what the call wrote through its destination pointer.                      *)

ErrRecordNotFound == "record not found"
ErrOther == "engine error"

\* the error the engine makes a call fail with ("": the call is carried out)
Faults == {"", ErrOther, ErrRecordNotFound}

\* First answering a missing row with no error and dest untouched
DBFirst_noErrorOnMiss(store, dest, id, fault) ==
    IF fault \notin {"", ErrRecordNotFound} THEN [err |-> fault, dest |-> dest]
    ELSE IF id \in DOMAIN store /\ store[id] # NoRec
    THEN [err |-> "", dest |-> [ID |-> id, Name |-> store[id]]]
    ELSE [err |-> "", dest |-> dest]

\* First(dest, id): the row whose primary key is id, scanned into dest; dest is left
\* as it was when there is no such row.  ErrRecordNotFound is First's answer for a
\* missing row and is returned for no other reason.
DBFirst(store, dest, id, fault) ==
    IF fault \notin {"", ErrRecordNotFound} THEN [err |-> fault, dest |-> dest]
    ELSE IF id \in DOMAIN store /\ store[id] # NoRec
    THEN [err |-> "", dest |-> [ID |-> id, Name |-> store[id]]]
    ELSE [err |-> ErrRecordNotFound, dest |-> dest]

\* Find(dest): every row, in primary-key order, appended to the slice dest points to
RECURSIVE RowsFrom(_, _)
RowsFrom(store, i) ==
    IF i > MaxId THEN <<>>
    ELSE IF store[i] # NoRec THEN <<[ID |-> i, Name |-> store[i]]>> \o RowsFrom(store, i + 1)
    ELSE RowsFrom(store, i + 1)

DBFind(store, fault) ==
    IF fault # "" THEN [err |-> fault, rows |-> <<>>]
    ELSE [err |-> "", rows |-> RowsFrom(store, 1)]

\* Create(value): inserts value; a zero primary key is assigned from the counter and
\* written back into value, a non-zero one is kept and must be unused
DBCreate(store, nid, inst, fault) ==
    IF fault # "" THEN [err |-> fault, store |-> store, nid |-> nid, inst |-> inst]
    ELSE IF inst.ID = 0
    THEN IF nid \in DOMAIN store
         THEN [err |-> "", store |-> [store EXCEPT ![nid] = inst.Name], nid |-> nid + 1,
               inst |-> [inst EXCEPT !.ID = nid]]
         ELSE [err |-> ErrOther, store |-> store, nid |-> nid, inst |-> inst]
    ELSE IF inst.ID \in DOMAIN store /\ store[inst.ID] = NoRec
    THEN [err |-> "", store |-> [store EXCEPT ![inst.ID] = inst.Name],
          nid |-> Max(nid, inst.ID + 1), inst |-> inst]
    ELSE [err |-> ErrOther, store |-> store, nid |-> nid, inst |-> inst]

\* Save(value): writes every field of the row whose primary key is value's,
\* inserting the row when there is none; a zero primary key is a Create
DBSave(store, nid, inst, fault) ==
    IF fault # "" THEN [err |-> fault, store |-> store, nid |-> nid, inst |-> inst]
    ELSE IF inst.ID = 0 THEN DBCreate(store, nid, inst, "")
    ELSE IF inst.ID \in DOMAIN store
    THEN [err |-> "", store |-> [store EXCEPT ![inst.ID] = inst.Name],
          nid |-> Max(nid, inst.ID + 1), inst |-> inst]
    ELSE [err |-> ErrOther, store |-> store, nid |-> nid, inst |-> inst]

\* Delete(value): removes the row whose primary key is value's; no such row is no
\* error, a zero primary key is refused (no condition to delete by)
DBDelete(store, inst, fault) ==
    IF fault # "" THEN [err |-> fault, store |-> store]
    ELSE IF inst.ID = 0 THEN [err |-> ErrOther, store |-> store]
    ELSE [err |-> "", store |-> [i \in DOMAIN store |-> IF i = inst.ID THEN NoRec ELSE store[i]]]

\* one entry of a request's log of storage calls: the function, the identifier
\* condition (First), the instance passed in, the error returned, and the instance
\* or rows written through the destination
Call(fn, id, arg, err, out, rows) ==
    [fn |-> fn, id |-> id, arg |-> arg, err |-> err, out |-> out, rows |-> rows]

----------------------------------------------------------------------------
(* state.validateModel, state.DefaultProvider, state.DefaultProcessor *)

\* a panic (nil interface call, reflect on the wrong kind): no response is written
Panic == [code |-> 0, msg |-> "panic"]

\* validateModel(c): locals is what c.Locals("model") holds: "unset" or "nil" (no
\* model), "val" (a struct by value), "ptr" (a pointer to a struct)
validateModel(locals) ==
    IF locals \in {"unset", "nil"}
    THEN NewError(StatusBadRequest, "model not found in context")
    ELSE IF locals # "ptr"
    THEN NewError(StatusBadRequest, "invalid model type")
    ELSE NoErr

\* findById reporting a missing record as (nil, nil) instead of an error
findById_nilOnNotFound(id, shared, store, fault) ==
    LET res == DBFirst(store, shared, id, fault)
        call == Call("First", id, shared, res.err, res.dest, <<>>)
    IN  IF res.err = ErrRecordNotFound
        THEN [err |-> NoErr, data |-> Nil, shared |-> res.dest, calls |-> <<call>>]
        ELSE IF res.err # ""
        THEN [err |-> NewError(StatusInternalServerError, "database error"),
              data |-> Nil, shared |-> res.dest, calls |-> <<call>>]
        ELSE [err |-> NoErr, data |-> ModelPtr, shared |-> res.dest, calls |-> <<call>>]

\* findById with every storage error answered 500 (the ErrRecordNotFound test lost)
findById_noNotFound(id, shared, store, fault) ==
    LET res == DBFirst(store, shared, id, fault)
        call == Call("First", id, shared, res.err, res.dest, <<>>)
    IN  IF res.err # ""
        THEN [err |-> NewError(StatusInternalServerError, "database error"),
              data |-> Nil, shared |-> res.dest, calls |-> <<call>>]
        ELSE [err |-> NoErr, data |-> ModelPtr, shared |-> res.dest, calls |-> <<call>>]

\* DefaultProvider.findById(id, modelType): modelType is the pointer validateModel
\* returned, so First scans into the instance it points to (shared)
findById(id, shared, store, fault) ==
    LET res == DBFirst(store, shared, id, fault)
        call == Call("First", id, shared, res.err, res.dest, <<>>)
    IN  IF res.err # ""
        THEN [err |-> IF res.err = ErrRecordNotFound
                      THEN NewError(StatusNotFound, "record not found")
                      ELSE NewError(StatusInternalServerError, "database error"),
              data |-> Nil, shared |-> res.dest, calls |-> <<call>>]
        ELSE [err |-> NoErr, data |-> ModelPtr, shared |-> res.dest, calls |-> <<call>>]

\* findAll returning nil instead of an empty collection
findAll_nilWhenEmpty(shared, store, fault) ==
    LET res == DBFind(store, fault)
        call == Call("Find", 0, Zero, res.err, Zero, res.rows)
    IN  IF res.err # ""
        THEN [err |-> NewError(StatusInternalServerError, "failed to fetch records"),
              data |-> Nil, shared |-> shared, calls |-> <<call>>]
        ELSE [err |-> NoErr, data |-> IF res.rows = <<>> THEN Nil ELSE ListPtr(res.rows),
              shared |-> shared, calls |-> <<call>>]

\* findAll answering a not-found error of Find with 404, as findById does
findAll_notFoundAs404(shared, store, fault) ==
    LET res == DBFind(store, fault)
        call == Call("Find", 0, Zero, res.err, Zero, res.rows)
    IN  IF res.err = ErrRecordNotFound
        THEN [err |-> NewError(StatusNotFound, "record not found"),
              data |-> Nil, shared |-> shared, calls |-> <<call>>]
        ELSE IF res.err # ""
        THEN [err |-> NewError(StatusInternalServerError, "failed to fetch records"),
              data |-> Nil, shared |-> shared, calls |-> <<call>>]
        ELSE [err |-> NoErr, data |-> ListPtr(res.rows), shared |-> shared, calls |-> <<call>>]

\* DefaultProvider.findAll(modelType): Find into a slice allocated for the call
findAll(shared, store, fault) ==
    LET res == DBFind(store, fault)
        call == Call("Find", 0, Zero, res.err, Zero, res.rows)
    IN  IF res.err # ""
        THEN [err |-> NewError(StatusInternalServerError, "failed to fetch records"),
              data |-> Nil, shared |-> shared, calls |-> <<call>>]
        ELSE [err |-> NoErr, data |-> ListPtr(res.rows), shared |-> shared, calls |-> <<call>>]

\* Provide listing the table before every lookup by id
DefaultProvide_twoLookups(locals, id, shared, store, fault) ==
    LET v == validateModel(locals)
        all == findAll(shared, store, fault)
        one == findById(id, shared, store, fault)
    IN  IF v # NoErr THEN [err |-> v, data |-> Nil, shared |-> shared, calls |-> <<>>]
        ELSE IF id # 0 THEN [one EXCEPT !.calls = all.calls \o @]
        ELSE all

\* DefaultProvider.Provide(c): id is c.Params("id"), 0 standing for the empty string
DefaultProvide(locals, id, shared, store, fault) ==
    LET v == validateModel(locals)
    IN  IF v # NoErr THEN [err |-> v, data |-> Nil, shared |-> shared, calls |-> <<>>]
        ELSE IF id # 0 THEN findById(id, shared, store, fault)
        ELSE findAll(shared, store, fault)

\* c.BodyParser(newInstance): the keys the body carries overwrite the instance
BodyParser(inst, body) ==
    IF ~body.wf THEN [ok |-> FALSE, inst |-> inst]
    ELSE [ok |-> TRUE,
          inst |-> [ID |-> IF body.ID # 0 THEN body.ID ELSE inst.ID, Name |-> body.Name]]

\* the instance a pipeline value points to ("list" values point to no instance)
Deref(d, shared) == IF d.t = "model" THEN shared ELSE d.inst

\* what a Process call returns: the error, the result, storage after it, its calls
ProcOut(err, result, store, nid, calls) ==
    [err |-> err, result |-> result, store |-> store, nid |-> nid, calls |-> calls]

\* handleCreate handing storage a copy, so the assigned identifier is not written back
handleCreate_noWriteBack(body, store, nid, fault) ==
    LET parsed == BodyParser(Zero, body)
        res == DBCreate(store, nid, parsed.inst, fault)
        call == Call("Create", 0, parsed.inst, res.err, res.inst, <<>>)
    IN  IF ~parsed.ok
        THEN ProcOut(NewError(StatusBadRequest, "invalid request body"), Nil, store, nid, <<>>)
        ELSE IF res.err # ""
        THEN ProcOut(NewError(StatusInternalServerError, "failed to create record"), Nil,
                     store, nid, <<call>>)
        ELSE ProcOut(NoErr, InstPtr(parsed.inst), res.store, res.nid, <<call>>)

\* DefaultProcessor.handleCreate(c, modelType)
handleCreate(body, store, nid, fault) ==
    LET parsed == BodyParser(Zero, body)
        res == DBCreate(store, nid, parsed.inst, fault)
        call == Call("Create", 0, parsed.inst, res.err, res.inst, <<>>)
    IN  IF ~parsed.ok
        THEN ProcOut(NewError(StatusBadRequest, "invalid request body"), Nil, store, nid, <<>>)
        ELSE IF res.err # ""
        THEN ProcOut(NewError(StatusInternalServerError, "failed to create record"), Nil,
                     store, nid, <<call>>)
        ELSE ProcOut(NoErr, InstPtr(res.inst), res.store, res.nid, <<call>>)

\* handleUpdate without the copy of the existing record's ID
handleUpdate_noIdCopy(body, existing, shared, store, nid, fault) ==
    LET parsed == BodyParser(Zero, body)
        newInstance == parsed.inst
        res == DBSave(store, nid, newInstance, fault)
        call == Call("Save", 0, newInstance, res.err, res.inst, <<>>)
    IN  IF existing.t = "nil"
        THEN ProcOut(NewError(StatusBadRequest, "record not found"), Nil, store, nid, <<>>)
        ELSE IF ~parsed.ok
        THEN ProcOut(NewError(StatusBadRequest, "invalid request body"), Nil, store, nid, <<>>)
        ELSE IF existing.t = "list"
        THEN ProcOut(Panic, Nil, store, nid, <<>>)
        ELSE IF res.err # ""
        THEN ProcOut(NewError(StatusInternalServerError, "failed to update record"), Nil,
                     store, nid, <<call>>)
        ELSE ProcOut(NoErr, InstPtr(res.inst), res.store, res.nid, <<call>>)

\* handleUpdate without the nil test: with no existing record the body is saved as sent
handleUpdate_savingWithoutExisting(body, existing, shared, store, nid, fault) ==
    LET parsed == BodyParser(Zero, body)
        newInstance == IF existing.t \in {"nil", "list"} THEN parsed.inst
                       ELSE [parsed.inst EXCEPT !.ID = Deref(existing, shared).ID]
        res == DBSave(store, nid, newInstance, fault)
        call == Call("Save", 0, newInstance, res.err, res.inst, <<>>)
    IN  IF ~parsed.ok
        THEN ProcOut(NewError(StatusBadRequest, "invalid request body"), Nil, store, nid, <<>>)
        ELSE IF existing.t = "list"
        THEN ProcOut(Panic, Nil, store, nid, <<>>)
        ELSE IF res.err # ""
        THEN ProcOut(NewError(StatusInternalServerError, "failed to update record"), Nil,
                     store, nid, <<call>>)
        ELSE ProcOut(NoErr, InstPtr(res.inst), res.store, res.nid, <<call>>)

\* DefaultProcessor.handleUpdate(c, modelType, existing)
handleUpdate(body, existing, shared, store, nid, fault) ==
    LET parsed == BodyParser(Zero, body)
        newInstance == [parsed.inst EXCEPT !.ID = Deref(existing, shared).ID]
        res == DBSave(store, nid, newInstance, fault)
        call == Call("Save", 0, newInstance, res.err, res.inst, <<>>)
    IN  IF existing.t = "nil"
        THEN ProcOut(NewError(StatusBadRequest, "record not found"), Nil, store, nid, <<>>)
        ELSE IF ~parsed.ok
        THEN ProcOut(NewError(StatusBadRequest, "invalid request body"), Nil, store, nid, <<>>)
        ELSE IF existing.t = "list"
        THEN ProcOut(Panic, Nil, store, nid, <<>>)
        ELSE IF res.err # ""
        THEN ProcOut(NewError(StatusInternalServerError, "failed to update record"), Nil,
                     store, nid, <<call>>)
        ELSE ProcOut(NoErr, InstPtr(res.inst), res.store, res.nid, <<call>>)

\* handleDelete without the test of Delete's error
handleDelete_ignoringError(data, shared, store, nid, fault) ==
    LET res == IF data.t = "list" THEN [err |-> ErrOther, store |-> store]
               ELSE DBDelete(store, Deref(data, shared), fault)
        call == Call("Delete", 0, Deref(data, shared), res.err, Zero, data.list)
    IN  IF data.t = "nil"
        THEN ProcOut(NewError(StatusBadRequest, "no data to delete"), Nil, store, nid, <<>>)
        ELSE ProcOut(NoErr, Nil, res.store, nid, <<call>>)

\* handleDelete answering success without the storage call
handleDelete_noStorageCall(data, shared, store, nid, fault) ==
    IF data.t = "nil"
    THEN ProcOut(NewError(StatusBadRequest, "no data to delete"), Nil, store, nid, <<>>)
    ELSE ProcOut(NoErr, Nil, store, nid, <<>>)

\* DefaultProcessor.handleDelete(data)
handleDelete(data, shared, store, nid, fault) ==
    LET res == IF data.t = "list" THEN [err |-> ErrOther, store |-> store]
               ELSE DBDelete(store, Deref(data, shared), fault)
        call == Call("Delete", 0, Deref(data, shared), res.err, Zero, data.list)
    IN  IF data.t = "nil"
        THEN ProcOut(NewError(StatusBadRequest, "no data to delete"), Nil, store, nid, <<>>)
        ELSE IF res.err # ""
        THEN ProcOut(NewError(StatusInternalServerError, "failed to delete record"), Nil,
                     store, nid, <<call>>)
        ELSE ProcOut(NoErr, Nil, res.store, nid, <<call>>)

\* Process passing data through before it looks at the model descriptor
DefaultProcess_passThroughUnvalidated(locals, method, body, data, shared, store, nid, fault) ==
    LET v == validateModel(locals)
    IN  IF method \notin {"POST", "PUT", "DELETE"} THEN ProcOut(NoErr, data, store, nid, <<>>)
        ELSE IF v # NoErr THEN ProcOut(v, Nil, store, nid, <<>>)
        ELSE IF method = "POST" THEN handleCreate(body, store, nid, fault)
        ELSE IF method = "PUT" THEN handleUpdate(body, data, shared, store, nid, fault)
        ELSE handleDelete(data, shared, store, nid, fault)

\* DefaultProcessor.Process(c, data): keyed by c.Method()
DefaultProcess(locals, method, body, data, shared, store, nid, fault) ==
    LET v == validateModel(locals)
    IN  IF v # NoErr THEN ProcOut(v, Nil, store, nid, <<>>)
        ELSE IF method = "POST" THEN handleCreate(body, store, nid, fault)
        ELSE IF method = "PUT" THEN handleUpdate(body, data, shared, store, nid, fault)
        ELSE IF method = "DELETE" THEN handleDelete(data, shared, store, nid, fault)
        ELSE ProcOut(NoErr, data, store, nid, <<>>)

----------------------------------------------------------------------------
(* ResourceConfig, OperationConfig and ResourceManager.CreateResource *)

\* StateProvider / StateProcessor values: the storage-backed default, a stub that
\* returns a fixed (response, err) pair, or a nil interface
DefaultProvider == [kind |-> "default", response |-> Nil, err |-> NoErr]
DefaultProcessor == [kind |-> "default", response |-> Nil, err |-> NoErr]
Stub(response, err) == [kind |-> "stub", response |-> response, err |-> err]
NilStage == [kind |-> "nil", response |-> Nil, err |-> NoErr]

OperationConfig(provider, processor, enabled) ==
    [Provider |-> provider, Processor |-> processor, Enabled |-> enabled]

\* strings.ToLower(modelType.Name()) for the model types of the tests and the README
TypeNames == {"TestModel", "ComplexTestModel", "User", "Category"}
ToLower(name) ==
    CASE name = "TestModel" -> "testmodel"
      [] name = "ComplexTestModel" -> "complextestmodel"
      [] name = "User" -> "user"
      [] name = "Category" -> "category"

\* the model argument: a struct by value or a pointer to one
ModelArg(kind, type) == [kind |-> kind, type |-> type, inst |-> Zero]

\* a customizer func(*ResourceConfig), as the assignment it makes
SetPath(p) == [f |-> "path", op |-> "", path |-> p, on |-> FALSE, stage |-> NilStage]
SetEnabled(op, b) == [f |-> "enabled", op |-> op, path |-> "", on |-> b, stage |-> NilStage]
SetProvider(op, st) == [f |-> "provider", op |-> op, path |-> "", on |-> FALSE, stage |-> st]
SetProcessor(op, st) == [f |-> "processor", op |-> op, path |-> "", on |-> FALSE, stage |-> st]
RemoveOperation(op) == [f |-> "remove", op |-> op, path |-> "", on |-> FALSE, stage |-> NilStage]

Customize(cfg, c) ==
    IF c.f = "path" THEN [cfg EXCEPT !.Path = c.path]
    ELSE IF c.op \notin DOMAIN cfg.Operations THEN cfg
    ELSE IF c.f = "enabled" THEN [cfg EXCEPT !.Operations[c.op].Enabled = c.on]
    ELSE IF c.f = "provider" THEN [cfg EXCEPT !.Operations[c.op].Provider = c.stage]
    ELSE IF c.f = "processor" THEN [cfg EXCEPT !.Operations[c.op].Processor = c.stage]
    ELSE [cfg EXCEPT !.Operations = [o \in DOMAIN cfg.Operations \ {c.op} |-> cfg.Operations[o]]]

\* the loop run from the last customizer to the first
RECURSIVE ApplyCustomizers_lastFirst(_, _)
ApplyCustomizers_lastFirst(cfg, cs) ==
    IF cs = <<>> THEN cfg ELSE Customize(ApplyCustomizers_lastFirst(cfg, Tail(cs)), Head(cs))

\* the loop over customConfig, in argument order
RECURSIVE ApplyCustomizers(_, _)
ApplyCustomizers(cfg, cs) ==
    IF cs = <<>> THEN cfg ELSE ApplyCustomizers(Customize(cfg, Head(cs)), Tail(cs))

\* the default path without the plural suffix
DefaultPath_noPlural(model) == "/" \o ToLower(model.type)

DefaultPath(model) == "/" \o ToLower(model.type) \o "s"

\* the default configuration with the create operation left without a Processor
DefaultConfig_createWithoutProcessor(model) ==
    [Model |-> model,
     Path |-> DefaultPath(model),
     Operations |-> [o \in Operation |->
         OperationConfig(DefaultProvider,
                         IF o = OperationCreate THEN NilStage ELSE DefaultProcessor, TRUE)]]

\* the configuration CreateResource builds before the customizers run
DefaultConfig(model) ==
    [Model |-> model,
     Path |-> DefaultPath(model),
     Operations |-> [o \in Operation |-> OperationConfig(DefaultProvider, DefaultProcessor, TRUE)]]

CreateResourceConfig(model, cs) == ApplyCustomizers(DefaultConfig(model), cs)

\* the configuration of a Resource nobody has created yet
NoConfig == [Model |-> [kind |-> "nil", type |-> "", inst |-> Zero], Path |-> "",
             Operations |-> [o \in {} |-> OperationConfig(NilStage, NilStage, FALSE)]]

----------------------------------------------------------------------------
(* Resource.RegisterRoutes *)

Route(method, path, item, op) == [method |-> method, path |-> path, item |-> item, op |-> op]

\* the table with update bound to the collection path
RouteFor_updateOnCollection(op, path) ==
    CASE op = OperationGetList -> Route("GET", path, FALSE, op)
      [] op = OperationCreate -> Route("POST", path, FALSE, op)
      [] op = OperationGetItem -> Route("GET", path \o "/:id", TRUE, op)
      [] op = OperationUpdate -> Route("PUT", path, FALSE, op)
      [] op = OperationDelete -> Route("DELETE", path \o "/:id", TRUE, op)

\* the router call RegisterRoutes makes for op
RouteFor(op, path) ==
    CASE op = OperationGetList -> Route("GET", path, FALSE, op)
      [] op = OperationCreate -> Route("POST", path, FALSE, op)
      [] op = OperationGetItem -> Route("GET", path \o "/:id", TRUE, op)
      [] op = OperationUpdate -> Route("PUT", path \o "/:id", TRUE, op)
      [] op = OperationDelete -> Route("DELETE", path \o "/:id", TRUE, op)

\* the registration test without its Enabled conjunct
Registers_ignoringEnabled(cfg, op) == op \in DOMAIN cfg.Operations

\* RegisterRoutes binds op when the map has an entry for it and the entry is enabled
Registers(cfg, op) == op \in DOMAIN cfg.Operations /\ cfg.Operations[op].Enabled

RegisteredRoutes(cfg) == {RouteFor(op, cfg.Path) : op \in {o \in Operation : Registers(cfg, o)}}

----------------------------------------------------------------------------
(* Requests and Resource.handleOperation *)

NoResp == [status |-> 0, body |-> Nil, msg |-> ""]
ErrorResp(err) == [status |-> err.code, body |-> Nil, msg |-> err.msg]

\* a request slot: pc is the handler's position; locals is c.Locals("model"); data,
\* result and err are the handler's local variables; resp is what was written to the
\* client; calls, provides, processes and responses record the storage calls, the
\* stage invocations and the responses made for the request
IdleReq ==
    [pc |-> "idle", method |-> "GET", id |-> 0, body |-> BadBody, op |-> "",
     locals |-> "unset", data |-> Nil, result |-> Nil, err |-> NoErr, resp |-> NoResp,
     calls |-> <<>>, provides |-> 0, processes |-> 0, responses |-> 0]

Methods == {"GET", "POST", "PUT", "DELETE"}

\* the requests clients send: a method, the collection path (id = 0) or an item
\* path, and a body on POST and PUT
Requests ==
    {[method |-> m, id |-> i, body |-> b] :
        m \in {"GET", "DELETE"}, i \in {0} \cup Ids, b \in {BadBody}}
    \cup {[method |-> m, id |-> i, body |-> b] :
        m \in {"POST", "PUT"}, i \in {0} \cup Ids, b \in Bodies}

\* POST requests accepted but not yet past their Process step
PendingCreates ==
    Cardinality({s \in Slots : reqs[s].method = "POST"
                               /\ reqs[s].pc \in {"dispatch", "provide", "process"}})

\* a request arrives in slot r (the counter of the storage table is kept within Ids)
Receive(r, q) ==
    /\ phase = "serving"
    /\ reqs[r].pc \in {"idle", "done"}
    /\ q.method = "POST" => nextId + PendingCreates <= MaxId
    /\ reqs' = [reqs EXCEPT ![r] = [IdleReq EXCEPT !.pc = "dispatch", !.method = q.method,
                                                   !.id = q.id, !.body = q.body]]
    /\ UNCHANGED <<config, routes, phase, db, nextId, args>>

\* the routes of the router that match the request's method and path
Matching(q) == {rt \in routes : rt.method = q.method /\ rt.item = (q.id # 0)}

Finish(q, resp) == [q EXCEPT !.pc = "done", !.resp = resp, !.responses = @ + 1]

\* return err: the error reaches the router's error handler, which answers with the
\* error's code and message; a panic ends the request with nothing written
Fail(q, err) ==
    IF err = Panic THEN [q EXCEPT !.pc = "done", !.err = err]
    ELSE Finish([q EXCEPT !.err = err], ErrorResp(err))

\* Dispatch whose re-check tests only that the operation has an entry
Dispatch_recheckingExistenceOnly(r) ==
    LET q == reqs[r]
        op == (CHOOSE rt \in Matching(q) : TRUE).op
    IN  /\ q.pc = "dispatch"
        /\ reqs' = [reqs EXCEPT ![r] =
              IF Matching(q) = {}
              THEN Finish(q, [status |-> StatusNotFound, body |-> Nil, msg |-> "no route"])
              ELSE IF op \notin DOMAIN config.Operations
              THEN Fail([q EXCEPT !.op = op], NewError(StatusNotFound, "Operation not found"))
              ELSE [q EXCEPT !.pc = "provide", !.op = op, !.locals = config.Model.kind]]
        /\ UNCHANGED <<config, routes, phase, db, nextId, args>>

\* the router's lookup and the head of the handler closure: the enabled re-check and
\* c.Locals("model", r.config.Model)
Dispatch(r) ==
    LET q == reqs[r]
        op == (CHOOSE rt \in Matching(q) : TRUE).op
    IN  /\ q.pc = "dispatch"
        /\ reqs' = [reqs EXCEPT ![r] =
              IF Matching(q) = {}
              THEN Finish(q, [status |-> StatusNotFound, body |-> Nil, msg |-> "no route"])
              ELSE IF op \notin DOMAIN config.Operations \/ ~config.Operations[op].Enabled
              THEN Fail([q EXCEPT !.op = op], NewError(StatusNotFound, "Operation not found"))
              ELSE [q EXCEPT !.pc = "provide", !.op = op, !.locals = config.Model.kind]]
        /\ UNCHANGED <<config, routes, phase, db, nextId, args>>

\* the create operation's provider returning nil data without reading the table
ProvideOut_noListForCreate(stage, q, fault) ==
    IF stage.kind = "default" /\ q.method = "POST"
    THEN [err |-> NoErr, data |-> Nil, shared |-> config.Model.inst, calls |-> <<>>]
    ELSE IF stage.kind = "default"
    THEN DefaultProvide(q.locals, q.id, config.Model.inst, db, fault)
    ELSE IF stage.kind = "stub"
    THEN [err |-> stage.err, data |-> IF stage.err = NoErr THEN stage.response ELSE Nil,
          shared |-> config.Model.inst, calls |-> <<>>]
    ELSE [err |-> Panic, data |-> Nil, shared |-> config.Model.inst, calls |-> <<>>]

\* what operationConfig.Provider.Provide(c) returns
ProvideOut(stage, q, fault) ==
    IF stage.kind = "default"
    THEN DefaultProvide(q.locals, q.id, config.Model.inst, db, fault)
    ELSE IF stage.kind = "stub"
    THEN [err |-> stage.err, data |-> IF stage.err = NoErr THEN stage.response ELSE Nil,
          shared |-> config.Model.inst, calls |-> <<>>]
    ELSE [err |-> Panic, data |-> Nil, shared |-> config.Model.inst, calls |-> <<>>]

\* Provide without the early return on a provider error
Provide_ignoringError(r) ==
    LET q == reqs[r]
    IN  /\ q.pc = "provide"
        /\ \E fault \in Faults :
             LET out == ProvideOut(config.Operations[q.op].Provider, q, fault)
                 q1 == [q EXCEPT !.provides = @ + 1, !.calls = @ \o out.calls]
             IN  /\ config' = [config EXCEPT !.Model.inst = out.shared]
                 /\ reqs' = [reqs EXCEPT ![r] = [q1 EXCEPT !.pc = "process", !.data = out.data]]
        /\ UNCHANGED <<routes, phase, db, nextId, args>>

\* data, err := operationConfig.Provider.Provide(c); if err != nil { return err }
Provide(r) ==
    LET q == reqs[r]
    IN  /\ q.pc = "provide"
        /\ \E fault \in Faults :
             LET out == ProvideOut(config.Operations[q.op].Provider, q, fault)
                 q1 == [q EXCEPT !.provides = @ + 1, !.calls = @ \o out.calls]
             IN  /\ config' = [config EXCEPT !.Model.inst = out.shared]
                 /\ reqs' = [reqs EXCEPT ![r] =
                       IF out.err # NoErr THEN Fail(q1, out.err)
                       ELSE [q1 EXCEPT !.pc = "process", !.data = out.data]]
        /\ UNCHANGED <<routes, phase, db, nextId, args>>

\* the default processor choosing its handler by the operation slot it sits in
ProcessOut_keyedBySlot(stage, q, fault) ==
    LET m == IF q.op = OperationCreate THEN "POST"
             ELSE IF q.op = OperationUpdate THEN "PUT"
             ELSE IF q.op = OperationDelete THEN "DELETE"
             ELSE "GET"
    IN  IF stage.kind = "default"
        THEN DefaultProcess(q.locals, m, q.body, q.data, config.Model.inst, db, nextId, fault)
        ELSE IF stage.kind = "stub"
        THEN ProcOut(stage.err, IF stage.err = NoErr THEN stage.response ELSE Nil, db, nextId, <<>>)
        ELSE ProcOut(Panic, Nil, db, nextId, <<>>)

\* what operationConfig.Processor.Process(c, data) returns
ProcessOut(stage, q, fault) ==
    IF stage.kind = "default"
    THEN DefaultProcess(q.locals, q.method, q.body, q.data, config.Model.inst, db, nextId, fault)
    ELSE IF stage.kind = "stub"
    THEN ProcOut(stage.err, IF stage.err = NoErr THEN stage.response ELSE Nil, db, nextId, <<>>)
    ELSE ProcOut(Panic, Nil, db, nextId, <<>>)

\* result, err := operationConfig.Processor.Process(c, data); if err != nil { return err }
Process(r) ==
    LET q == reqs[r]
    IN  /\ q.pc = "process"
        /\ \E fault \in Faults :
             LET out == ProcessOut(config.Operations[q.op].Processor, q, fault)
                 q1 == [q EXCEPT !.processes = @ + 1, !.calls = @ \o out.calls]
             IN  /\ db' = out.store
                 /\ nextId' = out.nid
                 /\ reqs' = [reqs EXCEPT ![r] =
                       IF out.err # NoErr THEN Fail(q1, out.err)
                       ELSE [q1 EXCEPT !.pc = "respond", !.result = out.result]]
        /\ UNCHANGED <<config, routes, phase, args>>

\* what c.JSON(result) writes: a pointer is followed when the body is serialized
Materialise(d, shared) == IF d.t = "model" THEN InstPtr(shared) ELSE d

\* Respond without the nil test: every result is serialized
Respond_alwaysJSON(r) ==
    LET q == reqs[r]
    IN  /\ q.pc = "respond"
        /\ reqs' = [reqs EXCEPT ![r] =
              Finish(q, [status |-> StatusOK,
                         body |-> Materialise(q.result, config.Model.inst), msg |-> ""])]
        /\ UNCHANGED <<config, routes, phase, db, nextId, args>>

\* if result == nil { return c.SendStatus(204) }; return c.JSON(result)
Respond(r) ==
    LET q == reqs[r]
    IN  /\ q.pc = "respond"
        /\ reqs' = [reqs EXCEPT ![r] =
              IF q.result.t = "nil"
              THEN Finish(q, [status |-> StatusNoContent, body |-> Nil, msg |-> ""])
              ELSE Finish(q, [status |-> StatusOK,
                              body |-> Materialise(q.result, config.Model.inst), msg |-> ""])]
        /\ UNCHANGED <<config, routes, phase, db, nextId, args>>

----------------------------------------------------------------------------
(* Construction *)

CreateResource(model, cs) ==
    /\ phase = "new"
    /\ config' = CreateResourceConfig(model, cs)
    /\ args' = [model |-> model, customConfig |-> cs]
    /\ phase' = "created"
    /\ UNCHANGED <<routes, db, nextId, reqs>>

RegisterRoutes ==
    /\ phase = "created"
    /\ routes' = RegisteredRoutes(config)
    /\ phase' = "serving"
    /\ UNCHANGED <<config, db, nextId, reqs, args>>

EmptyTable == [i \in Ids |-> NoRec]

\* no CreateResource call made yet
NoArgs == [model |-> NoConfig.Model, customConfig |-> <<>>]

\* the call the README makes: a pointer to a zero model, no customizer
DefaultArgs == [model |-> ModelArg("ptr", "TestModel"), customConfig |-> <<>>]

Init ==
    /\ phase = "new"
    /\ config = NoConfig
    /\ routes = {}
    /\ db = EmptyTable
    /\ nextId = 1
    /\ reqs = [s \in Slots |-> IdleReq]
    /\ args = NoArgs

----------------------------------------------------------------------------
(* Spec: one resource created as in the README (a pointer model, no customizers), *)
(* serving one request at a time                                                   *)

CreateDefault == CreateResource(ModelArg("ptr", "TestModel"), <<>>)
ReceiveOne == \E q \in Requests : Receive("r1", q)
DispatchOne == Dispatch("r1")
ProvideOne == Provide("r1")
ProcessOne == Process("r1")
RespondOne == Respond("r1")

Next ==
    \/ CreateDefault
    \/ RegisterRoutes
    \/ ReceiveOne
    \/ DispatchOne
    \/ ProvideOne
    \/ ProcessOne
    \/ RespondOne

Spec == Init /\ [][Next]_vars

----------------------------------------------------------------------------
(* SpecConc: the same resource, already serving over a table that stores rows 1   *)
(* and 2, handling two requests whose handler steps interleave                     *)

StoredTable == [i \in Ids |-> IF i = 1 THEN "x" ELSE IF i = 2 THEN "y" ELSE NoRec]

\* the requests that reach a handler of the default routes
RoutedRequests == {q \in Requests : (q.id = 0) = (q.method \in {"POST"}) \/ q.method = "GET"}

InitConc ==
    /\ phase = "serving"
    /\ config = CreateResourceConfig(ModelArg("ptr", "TestModel"), <<>>)
    /\ routes = RegisteredRoutes(config)
    /\ db = StoredTable
    /\ nextId = 3
    /\ reqs = [s \in Slots |-> IdleReq]
    /\ args = DefaultArgs

ReceiveAny == \E r \in Slots, q \in RoutedRequests : reqs[r].pc = "idle" /\ Receive(r, q)
DispatchAny == \E r \in Slots : Dispatch(r)
ProvideAny == \E r \in Slots : Provide(r)
ProcessAny == \E r \in Slots : Process(r)
RespondAny == \E r \in Slots : Respond(r)

NextConc ==
    \/ ReceiveAny
    \/ DispatchAny
    \/ ProvideAny
    \/ ProcessAny
    \/ RespondAny

SpecConc == InitConc /\ [][NextConc]_vars

----------------------------------------------------------------------------
(* SpecProc: DefaultProcessor.Process applied once to inputs drawn from bounded   *)
(* sets: any method, body, provider data, model descriptor and operation slot     *)

Rec1 == [ID |-> 1, Name |-> "x"]
Rec2 == [ID |-> 2, Name |-> "y"]

ProcData == {Nil, ModelPtr, InstPtr(Rec1), InstPtr(Rec2), ListPtr(<<>>), ListPtr(<<Rec1>>)}
ProcShared == {Zero, Rec1, Rec2}
ProcLocals == {"unset", "val", "ptr"}

\* the requests Process is called with: the routed ones and, called directly, a
\* method the processor has no case for
ProcRequests ==
    Requests \cup {[method |-> "PATCH", id |-> i, body |-> b] : i \in {0} \cup Ids, b \in Bodies}

InitProc ==
    /\ phase = "serving"
    /\ \E shared \in ProcShared :
         config = [CreateResourceConfig(ModelArg("ptr", "TestModel"), <<>>)
                      EXCEPT !.Model.inst = shared]
    /\ routes = RegisteredRoutes(config)
    /\ \E full \in BOOLEAN :
         /\ db = IF full THEN StoredTable ELSE EmptyTable
         /\ nextId = IF full THEN 3 ELSE 1
    /\ \E q \in ProcRequests, op \in Operation, locals \in ProcLocals, data \in ProcData :
         reqs = [s \in Slots |->
                    IF s = "r1"
                    THEN [IdleReq EXCEPT !.pc = "process", !.method = q.method, !.id = q.id,
                                         !.body = q.body, !.op = op, !.locals = locals,
                                         !.data = data, !.provides = 1]
                    ELSE IdleReq]
    /\ args = DefaultArgs

NextProc ==
    \/ ProcessOne
    \/ RespondOne

SpecProc == InitProc /\ [][NextProc]_vars

----------------------------------------------------------------------------
(* SpecValue: as Spec, with the model passed to CreateResource by value or by     *)
(* pointer                                                                         *)

CreateByKind == \E kind \in {"ptr", "val"} : CreateResource(ModelArg(kind, "TestModel"), <<>>)

NextValue ==
    \/ CreateByKind
    \/ RegisterRoutes
    \/ ReceiveOne
    \/ DispatchOne
    \/ ProvideOne
    \/ ProcessOne
    \/ RespondOne

SpecValue == Init /\ [][NextValue]_vars

----------------------------------------------------------------------------
(* SpecRoutes: resources built as resource_test.go's createTestResource builds    *)
(* them: any subset of the operations present, each enabled or not, stub stages   *)
(* (or nil stages on a disabled operation), no model; then registered and sent    *)
(* each method on each of the two paths                                            *)

TestPaths == {"/api/test", "/custom-path"}

\* defaultResponses of createTestResource
StubResponse(op) ==
    CASE op = OperationGetList -> ListPtr(<<Rec1>>)
      [] op = OperationCreate -> InstPtr(Rec2)
      [] op = OperationGetItem -> InstPtr(Rec1)
      [] op = OperationUpdate -> InstPtr(Rec2)
      [] op = OperationDelete -> Nil

TestOperationConfig(op, how) ==
    CASE how = "on" -> OperationConfig(Stub(Nil, NoErr), Stub(StubResponse(op), NoErr), TRUE)
      [] how = "off" -> OperationConfig(Stub(Nil, NoErr), Stub(StubResponse(op), NoErr), FALSE)
      [] how = "offnil" -> OperationConfig(NilStage, NilStage, FALSE)

TestConfig(path, hows) ==
    [Model |-> NoConfig.Model,
     Path |-> path,
     Operations |-> [o \in {x \in Operation : hows[x] # "absent"} |-> TestOperationConfig(o, hows[o])]]

TestRequests == {q \in Requests : q.id \in {0, 1} /\ q.body = BadBody}

InitRoutes ==
    /\ phase = "created"
    /\ \E path \in TestPaths, hows \in [Operation -> {"absent", "off", "offnil", "on"}] :
         config = TestConfig(path, hows)
    /\ routes = {}
    /\ db = EmptyTable
    /\ nextId = 1
    /\ reqs = [s \in Slots |-> IdleReq]
    /\ args = NoArgs

ReceiveTest == \E q \in TestRequests : Receive("r1", q)

NextRoutes ==
    \/ RegisterRoutes
    \/ ReceiveTest
    \/ DispatchOne
    \/ ProvideOne
    \/ ProcessOne
    \/ RespondOne

SpecRoutes == InitRoutes /\ [][NextRoutes]_vars

----------------------------------------------------------------------------
(* SpecStage: a serving resource whose five operations are enabled and wired to   *)
(* one Provider and one Processor drawn from the default stages, stubs returning  *)
(* a value or an error, and nil                                                    *)

StubErrors == {NewError(StatusNotFound, "stub: not found"),
               NewError(StatusInternalServerError, "stub: failure")}

Stages ==
    {DefaultProvider, NilStage}
    \cup {Stub(v, NoErr) : v \in {Nil, InstPtr(Rec1), ListPtr(<<Rec1, Rec2>>)}}
    \cup {Stub(Nil, e) : e \in StubErrors}

StageRequests ==
    {q \in RoutedRequests : q.id \in {0, 1, 2} /\ q.body \in {BadBody, [wf |-> TRUE, ID |-> 0, Name |-> "y"]}}

InitStage ==
    /\ phase = "serving"
    /\ \E provider \in Stages, processor \in Stages :
         config = [DefaultConfig(ModelArg("ptr", "TestModel")) EXCEPT
                      !.Operations = [o \in Operation |-> OperationConfig(provider, processor, TRUE)]]
    /\ routes = RegisteredRoutes(config)
    /\ db = EmptyTable
    /\ nextId = 1
    /\ reqs = [s \in Slots |-> IdleReq]
    /\ args = NoArgs

ReceiveStage == \E q \in StageRequests : Receive("r1", q)

NextStage ==
    \/ ReceiveStage
    \/ DispatchOne
    \/ ProvideOne
    \/ ProcessOne
    \/ RespondOne

SpecStage == InitStage /\ [][NextStage]_vars

----------------------------------------------------------------------------
(* SpecCreate: CreateResource called with a model of any of the types, by value   *)
(* or by pointer, and any sequence of at most MaxCustom customizers; then          *)
(* RegisterRoutes                                                                  *)

\* customizers as the tests write them: assignments to rc.Path and to the fields
\* of rc.Operations[op], and deletions from rc.Operations
Customizers ==
    {SetPath("/custom-path"), SetPath("/custom-test-models"), SetPath("items"), SetPath(""),
     SetEnabled(OperationCreate, FALSE), SetEnabled(OperationCreate, TRUE),
     SetEnabled(OperationDelete, FALSE),
     SetProvider(OperationCreate, Stub(InstPtr(Rec1), NoErr)),
     SetProcessor(OperationCreate, Stub(Nil, NoErr)),
     SetProcessor(OperationCreate, Stub(InstPtr(Rec2), NoErr)),
     RemoveOperation(OperationCreate), RemoveOperation(OperationDelete)}

\* rc.Operations[op].Field = v dereferences the entry: a sequence that assigns to
\* an entry after deleting it panics inside CreateResource and returns no resource
Returns(cs) ==
    \A i, j \in DOMAIN cs :
        i < j /\ cs[i].f = "remove" /\ cs[j].op = cs[i].op => cs[j].f = "remove"

CustomizerSeqs ==
    {cs \in UNION {[1..n -> Customizers] : n \in 0..MaxCustom} : Returns(cs)}

CreateAny ==
    \E kind \in {"ptr", "val"}, type \in TypeNames, cs \in CustomizerSeqs :
        CreateResource(ModelArg(kind, type), cs)

NextCreate ==
    \/ CreateAny
    \/ RegisterRoutes

SpecCreate == Init /\ [][NextCreate]_vars

----------------------------------------------------------------------------
(* SpecCaller: the README's resource, with a caller that edits the value          *)
(* Resource.Config() returned while the resource is registered and serves         *)

\* Resource.Config() returns r.config by value: the copy has its own Path, while
\* its Operations is the same map of the same *OperationConfig pointers and its
\* Model the same pointer.  ConfigEdited is r.config after the caller applied the
\* assignment c to the returned value.
ConfigEdited(cfg, c) == [Customize(cfg, c) EXCEPT !.Path = cfg.Path]

CallerEdits ==
    {SetPath("/custom-path"),
     SetEnabled(OperationCreate, FALSE),
     SetProcessor(OperationGetItem, Stub(Nil, NoErr)),
     RemoveOperation(OperationDelete)}

\* cfg := r.Config(); followed by one assignment to cfg, made while no handler runs
EditReturnedConfig(c) ==
    /\ phase \in {"created", "serving"}
    /\ \A s \in Slots : reqs[s].pc \in {"idle", "done"}
    /\ c.f = "path" \/ c.op \in DOMAIN config.Operations
    /\ config' = ConfigEdited(config, c)
    /\ UNCHANGED <<routes, phase, db, nextId, reqs, args>>

CallerEdit == \E c \in CallerEdits : EditReturnedConfig(c)

CallerRequests == {q \in Requests : q.id \in {0, 1} /\ q.body \in {BadBody, [wf |-> TRUE, ID |-> 0, Name |-> "x"]}}

ReceiveCaller == \E q \in CallerRequests : Receive("r1", q)

NextCaller ==
    \/ CreateDefault
    \/ RegisterRoutes
    \/ CallerEdit
    \/ ReceiveCaller
    \/ DispatchOne
    \/ ProvideOne
    \/ ProcessOne
    \/ RespondOne

SpecCaller == Init /\ [][NextCaller]_vars

----------------------------------------------------------------------------
(* SpecDescriptor: the default Provider or the default Processor applied to a     *)
(* request whose context holds any model descriptor: none, nil, a struct by       *)
(* value, a pointer to a non-struct, or a pointer to a struct                     *)

DescriptorLocals == {"unset", "nil", "val", "ptrprim", "ptr"}

DescriptorRequests ==
    {q \in Requests : q.id \in {0, 1, 2} /\ q.body \in {BadBody, [wf |-> TRUE, ID |-> 0, Name |-> "y"]}}

InitDescriptor ==
    /\ phase = "serving"
    /\ config = CreateResourceConfig(ModelArg("ptr", "TestModel"), <<>>)
    /\ routes = RegisteredRoutes(config)
    /\ \E full \in BOOLEAN :
         /\ db = IF full THEN StoredTable ELSE EmptyTable
         /\ nextId = IF full THEN 3 ELSE 1
    /\ \E q \in DescriptorRequests, op \in Operation, locals \in DescriptorLocals,
          data \in ProcData, stage \in {"provide", "process"} :
         /\ stage = "provide" => data = Nil
         /\ reqs = [s \in Slots |->
                      IF s = "r1"
                      THEN [IdleReq EXCEPT !.pc = stage, !.method = q.method, !.id = q.id,
                                           !.body = q.body, !.op = op, !.locals = locals,
                                           !.data = data,
                                           !.provides = IF stage = "process" THEN 1 ELSE 0]
                      ELSE IdleReq]
    /\ args = DefaultArgs

NextDescriptor ==
    \/ ProvideOne
    \/ ProcessOne
    \/ RespondOne

SpecDescriptor == InitDescriptor /\ [][NextDescriptor]_vars

----------------------------------------------------------------------------
(* Claims *)

\* the request handled one at a time in Spec, SpecProc, SpecValue, SpecRoutes, SpecStage
One == reqs["r1"]

\* some storage call of the request failed with an engine error (First's not-found
\* for a missing row is an answer, not a failure)
Faulted(q) ==
    \E i \in DOMAIN q.calls :
        q.calls[i].err # "" /\ ~(q.calls[i].fn = "First" /\ q.calls[i].err = ErrRecordNotFound)

\* the record a request's own lookup returned: what its pointer would refer to had
\* the request been handled alone
OwnRecord(q) ==
    IF q.calls # <<>> /\ q.calls[1].fn = "First" /\ q.calls[1].err = ""
    THEN q.calls[1].out ELSE Zero

\* the body a finished request would have got alone, given the answers storage gave
\* to its own calls
AloneBody(q) ==
    IF q.method = "PUT" THEN InstPtr([ID |-> OwnRecord(q).ID, Name |-> q.body.Name])
    ELSE IF q.result.t = "model" THEN InstPtr(OwnRecord(q))
    ELSE q.result

\* C1: under every interleaving of two requests on one resource with default wiring,
\* each request that succeeds gets the response it would get alone: a GET P/:id
\* answers with the record its own lookup returned, a PUT P/:id with the identifier
\* it addressed.  (SpecConc)
C1_ConcurrentRequestsIsolated ==
    \A r \in Slots :
        reqs[r].pc = "done" /\ reqs[r].resp.status = StatusOK
            => reqs[r].resp.body = AloneBody(reqs[r])

C3_UpdateKeepsExistingId ==
    LET existing == Deref(One.data, config.Model.inst)
        updated == [ID |-> existing.ID, Name |-> One.body.Name]
    IN  /\ One.pc \in {"respond", "done"} /\ One.processes = 1
        /\ One.method = "PUT" /\ One.locals = "ptr"
        /\ One.data.t \in {"model", "inst"} /\ existing.ID # 0
        /\ One.body.wf
        => /\ Len(One.calls) = 1
           /\ One.calls[1].fn = "Save"
           /\ One.calls[1].arg = updated
           /\ ~Faulted(One) => One.err = NoErr /\ One.result = InstPtr(updated)

\* a PUT whose body carries an id other than the existing record's was saved
C3_Witness ==
    /\ One.pc = "done" /\ One.method = "PUT" /\ One.resp.status = StatusOK
    /\ One.body.ID # 0
    /\ One.data.t = "inst" /\ One.body.ID # One.data.inst.ID
    /\ One.resp.body.inst.ID = One.data.inst.ID

\* C4: a resource created from a model passed by value, with default wiring and all
\* operations enabled, answers GET P with 200 and the findAll result, as one created
\* from a pointer does.  (SpecValue)
C4_ValueModelServes ==
    One.pc = "done" /\ One.method = "GET" /\ One.id = 0 /\ ~Faulted(One)
        => One.resp = [status |-> StatusOK, body |-> ListPtr(RowsFrom(db, 1)), msg |-> ""]

\* the (method, path) table of C5
TableMethod(op) ==
    CASE op = OperationGetList -> "GET"
      [] op = OperationCreate -> "POST"
      [] op = OperationGetItem -> "GET"
      [] op = OperationUpdate -> "PUT"
      [] op = OperationDelete -> "DELETE"

TablePath(op, path) ==
    IF op \in {OperationGetList, OperationCreate} THEN path ELSE path \o "/:id"

\* C5: RegisterRoutes registers exactly one route for each operation that is present
\* and enabled, with the method and path of the table, none for a disabled or absent
\* operation, and no two operations share a (method, path) pair.  (SpecRoutes)
C5_RoutesFollowTable ==
    phase = "serving" =>
        /\ \A op \in Operation :
             LET mine == {rt \in routes : rt.op = op}
             IN  IF op \in DOMAIN config.Operations /\ config.Operations[op].Enabled
                 THEN /\ Cardinality(mine) = 1
                      /\ \A rt \in mine : /\ rt.method = TableMethod(op)
                                          /\ rt.path = TablePath(op, config.Path)
                 ELSE mine = {}
        /\ \A a, b \in routes : a.method = b.method /\ a.path = b.path => a.op = b.op

\* routes registered for a configuration with an enabled, a disabled and an absent
\* operation, update among the enabled
C5_Witness ==
    /\ phase = "serving"
    /\ \E rt \in routes : rt.op = OperationUpdate
    /\ \E op \in Operation : op \notin DOMAIN config.Operations
    /\ \E op \in DOMAIN config.Operations : ~config.Operations[op].Enabled

AllDisabled ==
    /\ DOMAIN config.Operations = Operation
    /\ \A op \in Operation : ~config.Operations[op].Enabled

\* C6: on a resource whose five operations are all disabled, nil stages or not,
\* every request ends in the router's not-found response: no handler of the
\* resource is reached and no Provider or Processor is invoked.  (SpecRoutes)
C6_AllDisabledNotFound ==
    AllDisabled /\ One.pc # "idle"
        => /\ One.pc \in {"dispatch", "done"}
           /\ One.provides = 0 /\ One.processes = 0
           /\ One.pc = "done" => One.resp.status = StatusNotFound /\ One.op = ""

\* a PUT P/:id answered on an all-disabled resource whose update stages are nil
C6_Witness ==
    /\ AllDisabled
    /\ config.Operations[OperationUpdate].Provider = NilStage
    /\ One.pc = "done" /\ One.method = "PUT" /\ One.id # 0
    /\ One.resp.status = StatusNotFound

\* the error the wired Provider returned for the request, NoErr for none: a stub's
\* configured error, the default provider's error for a failed lookup
ProviderFailed(q) ==
    LET stage == config.Operations[q.op].Provider
    IN  IF stage.kind = "stub" THEN stage.err # NoErr
        ELSE stage.kind = "default" /\ \E i \in DOMAIN q.calls :
                 q.calls[i].fn \in {"First", "Find"} /\ q.calls[i].err # ""

\* C7: for a request dispatched to an enabled operation whose stages return, Provide
\* is invoked exactly once and before Process, Process at most once and only when
\* Provide returned no error, and the request ends with exactly one response; when
\* a stage fails the response carries that stage's error code and message.
\* (SpecStage)
C7_LinearPipeline ==
    /\ One.pc = "provide" => One.provides = 0 /\ One.processes = 0 /\ One.responses = 0
    /\ One.pc = "process" => One.provides = 1 /\ One.processes = 0 /\ One.responses = 0
    /\ One.pc = "respond" => One.provides = 1 /\ One.processes = 1 /\ One.responses = 0
    /\ One.pc = "done" /\ One.op # "" /\ One.err # Panic
        => /\ One.provides = 1
           /\ One.processes <= 1
           /\ One.responses = 1
           /\ ProviderFailed(One) => One.processes = 0 /\ One.err # NoErr
           /\ One.err # NoErr
                => One.resp = [status |-> One.err.code, body |-> Nil, msg |-> One.err.msg]
           /\ One.err = NoErr => One.processes = 1 /\ One.resp.status \in {StatusOK, StatusNoContent}

\* a request whose stub Provider failed with 404 ended with that error
C7_Witness ==
    /\ One.pc = "done" /\ One.op # ""
    /\ config.Operations[One.op].Provider = Stub(Nil, NewError(StatusNotFound, "stub: not found"))
    /\ One.resp.status = StatusNotFound /\ One.resp.msg = "stub: not found"
    /\ One.provides = 1 /\ One.processes = 0

\* C8: dispatch responds 204 with an empty body exactly when the Processor returned
\* a nil result without error, and otherwise, when the Processor returned a result,
\* responds 200 with that result as the body; for every operation and every wiring.
\* (SpecStage)
C8_NoContentIffNilResult ==
    LET returned == One.processes = 1 /\ One.err = NoErr
        stage == config.Operations[One.op].Processor
    IN  One.pc = "done" /\ One.op # ""
        => /\ One.resp.status = StatusNoContent <=> returned /\ One.result.t = "nil"
           /\ One.resp.status = StatusNoContent => One.resp.body = Nil
           /\ returned /\ stage.kind = "stub" => One.result = stage.response
           /\ returned /\ One.result.t # "nil"
                => /\ One.resp.status = StatusOK
                   /\ One.resp.body = IF One.result.t = "model"
                                      THEN InstPtr(config.Model.inst) ELSE One.result

\* a GET answered 204 because a stub Processor returned nil
C8_Witness ==
    /\ One.pc = "done" /\ One.method = "GET" /\ One.op = OperationGetItem
    /\ config.Operations[One.op].Processor = Stub(Nil, NoErr)
    /\ One.resp.status = StatusNoContent

\* C9: with default wiring, GET P responds 200 with exactly the sequence of records
\* the Find call returned, in its order, also when that sequence is empty.  (Spec)
C9_GetListIsFindAll ==
    One.pc = "done" /\ One.method = "GET" /\ One.id = 0 /\ ~Faulted(One)
        => /\ Len(One.calls) = 1
           /\ One.calls[1].fn = "Find"
           /\ One.calls[1].rows = RowsFrom(db, 1)
           /\ One.resp = [status |-> StatusOK, body |-> ListPtr(One.calls[1].rows), msg |-> ""]

\* a GET P answered with two or more records
C9_Witness ==
    /\ One.pc = "done" /\ One.method = "GET" /\ One.id = 0
    /\ One.resp.status = StatusOK
    /\ Len(One.resp.body.list) >= 2

\* C10: the default processor on POST with a well-formed body makes exactly one
\* Create call, on a zero-valued instance populated from the body alone, whatever
\* data the provider handed over; when the engine accepts it the result is that
\* instance as the engine populated it, with a non-zero identifier.  (SpecProc)
C10_CreateFromBodyOnly ==
    /\ One.pc \in {"respond", "done"} /\ One.processes = 1
    /\ One.method = "POST" /\ One.locals = "ptr" /\ One.body.wf
    => /\ Len(One.calls) = 1
       /\ One.calls[1].fn = "Create"
       /\ One.calls[1].arg = [ID |-> One.body.ID, Name |-> One.body.Name]
       /\ One.calls[1].err = ""
            => /\ One.err = NoErr
               /\ One.result = InstPtr(One.calls[1].out)
               /\ One.calls[1].out.ID # 0
               /\ One.calls[1].out.Name = One.body.Name
               /\ db[One.calls[1].out.ID] = One.body.Name

\* a POST without an id in the body, handed a non-nil provider result, was created
C10_Witness ==
    /\ One.pc = "done" /\ One.method = "POST" /\ One.body.wf /\ One.body.ID = 0
    /\ One.data.t = "list"
    /\ One.resp.status = StatusOK /\ One.resp.body.inst.ID # 0

C12_RepeatedDeleteNoEffect ==
    /\ [](/\ One.pc = "done" /\ One.method = "DELETE" /\ One.op = OperationDelete
          /\ One.calls # <<>> /\ One.calls[1].err # ""
          => /\ Len(One.calls) = 1 /\ One.calls[1].fn = "First"
             /\ One.processes = 0
             /\ One.resp.body = Nil
             /\ One.resp.status = IF One.calls[1].err = ErrRecordNotFound
                                  THEN StatusNotFound ELSE StatusInternalServerError)
    /\ [][One.pc = "provide" /\ One.method = "DELETE" /\ db[One.id] = NoRec
            => /\ db' = db /\ nextId' = nextId
               /\ One'.pc = "done"
               /\ One'.calls # <<>> /\ One'.calls[1].err # ""
               /\ ~Faulted(One') => One'.resp.status = StatusNotFound]_vars

\* DELETE P/1 answered 404 on a table whose row 1 was created and deleted before
C12_Witness ==
    /\ One.pc = "done" /\ One.method = "DELETE" /\ One.id = 1
    /\ One.resp.status = StatusNotFound /\ One.resp.msg = "record not found"
    /\ db[1] = NoRec /\ nextId = 2

\* a Create, Save or Delete call of the request returned an error
WriteFailed(q) ==
    \E i \in DOMAIN q.calls : q.calls[i].fn \in {"Create", "Save", "Delete"} /\ q.calls[i].err # ""

\* C13: whenever the Create, Save or Delete call of the default processor returns an
\* error, Process returns a 500 error and no result, and the table and its counter
\* are the same after the call as before.  (SpecProc)
C13_StorageErrorIs500 ==
    [][One.pc = "process" /\ WriteFailed(One')
         => /\ One'.pc = "done"
            /\ One'.err.code = StatusInternalServerError
            /\ One'.result = Nil
            /\ One'.resp = [status |-> StatusInternalServerError, body |-> Nil, msg |-> One'.err.msg]
            /\ Len(One'.calls) = 1
            /\ db' = db /\ nextId' = nextId]_vars

\* a PUT whose Save failed was answered 500 over the stored table
C13_Witness ==
    /\ One.pc = "done" /\ One.method = "PUT"
    /\ One.calls # <<>> /\ One.calls[1].fn = "Save" /\ One.calls[1].err = ErrOther
    /\ One.resp.status = StatusInternalServerError /\ One.resp.msg = "failed to update record"
    /\ db = StoredTable

\* "/" + lowercase(typeName) + "s", written out for each model type
ExpectedPath(type) ==
    CASE type = "TestModel" -> "/testmodels"
      [] type = "ComplexTestModel" -> "/complextestmodels"
      [] type = "User" -> "/users"
      [] type = "Category" -> "/categorys"

\* C14: for every model type, passed by value or by pointer, CreateResource with no
\* customizers yields a resource whose path is "/" + lowercase(type name) + "s" and
\* whose stored model is the value passed in.  (SpecCreate)
C14_DefaultPathFromTypeName ==
    phase # "new" /\ args.customConfig = <<>>
        => /\ config.Path = ExpectedPath(args.model.type)
           /\ config.Model = args.model

\* a resource created from a Category passed by value
C14_Witness ==
    /\ phase = "created" /\ args.customConfig = <<>>
    /\ args.model = ModelArg("val", "Category")
    /\ config.Path = "/categorys"

\* C15: CreateResource with no customizers yields a configuration in which each of
\* the five operations has an entry that is enabled and carries the default Provider
\* and the default Processor, neither nil.  (SpecCreate)
C15_DefaultOperations ==
    phase # "new" /\ args.customConfig = <<>>
        => /\ DOMAIN config.Operations = Operation
           /\ \A op \in Operation :
                /\ config.Operations[op].Enabled
                /\ config.Operations[op].Provider = DefaultProvider
                /\ config.Operations[op].Processor = DefaultProcessor
                /\ config.Operations[op].Provider.kind # "nil"
                /\ config.Operations[op].Processor.kind # "nil"

\* the default resource with its five routes registered
C15_Witness ==
    /\ phase = "serving" /\ args.customConfig = <<>>
    /\ args.model = ModelArg("ptr", "TestModel")
    /\ Cardinality(routes) = 5

\* the index of the last customizer of cs that assigns field f of operation op
\* (op = "" for the path), 0 when there is none
LastSetting(cs, f, op) ==
    LET S == {i \in DOMAIN cs : cs[i].f = f /\ cs[i].op = op}
    IN  IF S = {} THEN 0 ELSE CHOOSE i \in S : \A j \in S : j <= i

\* C16: for every sequence of customizers, the configuration of the returned
\* resource is the default one with, for each field, the value of the last
\* customizer that set it, and the default value where none did; an operation a
\* customizer deleted has no entry.  (SpecCreate)
C16_CustomizersInOrder ==
    LET cs == args.customConfig
        p == LastSetting(cs, "path", "")
        kept == {op \in Operation : LastSetting(cs, "remove", op) = 0}
    IN  phase # "new"
        => /\ config.Model = args.model
           /\ config.Path = IF p = 0 THEN ExpectedPath(args.model.type) ELSE cs[p].path
           /\ DOMAIN config.Operations = kept
           /\ \A op \in kept :
                LET e == LastSetting(cs, "enabled", op)
                    pv == LastSetting(cs, "provider", op)
                    pc == LastSetting(cs, "processor", op)
                IN  /\ config.Operations[op].Enabled = IF e = 0 THEN TRUE ELSE cs[e].on
                    /\ config.Operations[op].Provider =
                           IF pv = 0 THEN DefaultProvider ELSE cs[pv].stage
                    /\ config.Operations[op].Processor =
                           IF pc = 0 THEN DefaultProcessor ELSE cs[pc].stage

\* two customizers set the path; the second one's value is the resource's path
C16_Witness ==
    /\ phase = "created"
    /\ args.customConfig = <<SetPath("/custom-path"), SetPath("/custom-test-models")>>
    /\ config.Path = "/custom-test-models"

\* the configuration CreateResource returned for the recorded arguments
CreatedConfig == CreateResourceConfig(args.model, args.customConfig)

\* C17: whatever a caller does to the value Resource.Config() returned (changing its
\* path, or changing or removing entries of its Operations), the path and the
\* operations the resource itself uses in RegisterRoutes and in dispatch are the
\* ones it was created with.  (SpecCaller)
C17_ConfigReadOnly ==
    phase # "new"
        => /\ config.Path = CreatedConfig.Path
           /\ config.Operations = CreatedConfig.Operations

\* C18: with default wiring, for two concurrent requests PUT P/:a and PUT P/:b with
\* a # b both stored, in every interleaving the instance each request saves carries
\* the identifier of that request's own path.  (SpecConc)
C18_ConcurrentUpdatesKeepOwnId ==
    /\ \A r \in Slots : reqs[r].method = "PUT" /\ reqs[r].pc # "idle"
    /\ reqs["r1"].id # reqs["r2"].id
    => \A r \in Slots : \A i \in DOMAIN reqs[r].calls :
           reqs[r].calls[i].fn = "Save" => reqs[r].calls[i].arg.ID = reqs[r].id

\* C19: handling requests after route registration leaves the resource's
\* ResourceConfig as CreateResource built it: path, operations, their flags and
\* stages, and the field values of the model instance it holds.  (Spec)
C19_ConfigUnchangedByRequests ==
    phase = "serving" => config = CreatedConfig

Reads == {"First", "Find"}
Writes == {"Create", "Save", "Delete"}

\* C20 as stated: one request makes at most one storage call in total, the
\* provider's and the processor's counted together.  (Spec)
C20_AtMostOneStorageCall ==
    Len(One.calls) <= 1

\* C20 amended: one request makes at most two storage calls, at most one read by the
\* provider (First or Find) and after it at most one write by the processor (Create,
\* Save or Delete), the write only when the read succeeded; a request whose write
\* succeeded does not fail.  (Spec)
C20_OneReadThenOneWrite ==
    LET c == One.calls
    IN  /\ Len(c) <= 2
        /\ Len(c) >= 1 => c[1].fn \in Reads /\ One.provides = 1
        /\ Len(c) = 2 => c[2].fn \in Writes /\ c[1].err = "" /\ One.processes = 1
        /\ \A i \in DOMAIN c : c[i].fn \in Writes /\ c[i].err = "" => One.err = NoErr

\* a PUT answered 500 because Save failed after the lookup of the same request
\* had succeeded
C20_Witness ==
    /\ One.pc = "done" /\ One.method = "PUT"
    /\ Len(One.calls) = 2
    /\ One.calls[1].fn = "First" /\ One.calls[1].err = ""
    /\ One.calls[2].fn = "Save" /\ One.calls[2].err # ""
    /\ One.resp.status = StatusInternalServerError

\* the operation of the registered handler the request is routed to
Routed(q) == (CHOOSE rt \in Matching(q) : TRUE).op

\* C21: when a request reaches a registered handler whose operation is at that
\* moment disabled or absent from the configuration, the response is the 404
\* not-found error and neither the Provider nor the Processor is invoked.
\* (SpecCaller)
C21_DisabledAtDispatchIs404 ==
    [][/\ One.pc = "dispatch" /\ Matching(One) # {}
       /\ \/ Routed(One) \notin DOMAIN config.Operations
          \/ ~config.Operations[Routed(One)].Enabled
       => /\ One'.pc = "done"
          /\ One'.op = Routed(One)
          /\ One'.resp = [status |-> StatusNotFound, body |-> Nil, msg |-> "Operation not found"]
          /\ One'.provides = 0 /\ One'.processes = 0 /\ One'.calls = <<>>
          /\ db' = db]_vars

\* a POST answered 404 by the create handler after create was disabled, and a
\* DELETE answered 404 by the delete handler after its entry was removed
C21_Witness ==
    /\ One.pc = "done" /\ One.resp.msg = "Operation not found"
    /\ \/ /\ One.op = OperationCreate /\ One.method = "POST"
          /\ ~config.Operations[OperationCreate].Enabled
       \/ /\ One.op = OperationDelete /\ One.method = "DELETE"
          /\ OperationDelete \notin DOMAIN config.Operations
    /\ \E rt \in routes : rt.op = One.op

\* the strings a path is made of after its leading "/" in the configurations built
PathRests == {ToLower(t) \o "s" : t \in TypeNames} \cup {"custom-path", "custom-test-models"}

\* p is a non-empty string beginning with "/"
BeginsWithSlash(p) == \E rest \in PathRests \cup {""} : p = "/" \o rest

\* C22: every ResourceConfig held by a Resource returned from CreateResource, for
\* any model and any sequence of customizers, has a path that is a non-empty string
\* beginning with "/" and has exactly one entry for each enabled operation.
\* (SpecCreate)
C22_PathAndEntriesWellFormed ==
    phase # "new"
        => /\ BeginsWithSlash(config.Path)
           /\ \A op \in DOMAIN config.Operations :
                config.Operations[op].Enabled
                    => op \in Operation
                       /\ Cardinality({o \in DOMAIN config.Operations : o = op}) = 1

\* C23: the default provider makes exactly one storage call: with an id path
\* parameter a First for that id and no Find, where not-found gives a 404 error and
\* any other error a 500 error; with no id a Find and no First, where every error,
\* not-found included, gives a 500 error; no data is returned with an error.  (Spec)
C23_ProviderErrorMapping ==
    LET c == One.calls
        failed(code, msg) ==
            /\ One.pc = "done" /\ One.processes = 0 /\ One.data = Nil /\ Len(c) = 1
            /\ One.resp = [status |-> code, body |-> Nil, msg |-> msg]
    IN  One.provides = 1 /\ One.op # ""
        => /\ Len(c) >= 1
           /\ One.pc = "process" => Len(c) = 1 /\ c[1].err = ""
           /\ \A i \in DOMAIN c : i > 1 => c[i].fn \in Writes
           /\ IF One.id # 0
              THEN /\ c[1].fn = "First" /\ c[1].id = One.id
                   /\ c[1].err = ErrRecordNotFound => failed(StatusNotFound, "record not found")
                   /\ c[1].err \notin {"", ErrRecordNotFound}
                        => failed(StatusInternalServerError, "database error")
              ELSE /\ c[1].fn = "Find"
                   /\ c[1].err # "" => failed(StatusInternalServerError, "failed to fetch records")

\* a GET P whose Find failed with the not-found error was answered 500
C23_Witness ==
    /\ One.pc = "done" /\ One.method = "GET" /\ One.id = 0
    /\ One.calls[1].fn = "Find" /\ One.calls[1].err = ErrRecordNotFound
    /\ One.resp.status = StatusInternalServerError

\* C24: whenever the model descriptor in the request context is absent or is not a
\* pointer to a struct, the default provider and the default processor both fail
\* with a 400 error and make no storage call, for every HTTP method, GET included.
\* (SpecDescriptor)
C24_InvalidDescriptorIs400 ==
    [][One.pc \in {"provide", "process"} /\ One.locals # "ptr"
         => /\ One'.pc = "done"
            /\ One'.err.code = StatusBadRequest
            /\ One'.resp = [status |-> StatusBadRequest, body |-> Nil,
                            msg |-> IF One.locals \in {"unset", "nil"}
                                    THEN "model not found in context"
                                    ELSE "invalid model type"]
            /\ One'.calls = <<>>
            /\ db' = db /\ nextId' = nextId /\ config' = config]_vars

\* the processor refused a GET whose descriptor is a struct by value, and the
\* provider one whose descriptor is missing
C24_Witness ==
    /\ One.pc = "done" /\ One.method = "GET" /\ One.resp.status = StatusBadRequest
    /\ \/ One.processes = 1 /\ One.locals = "val" /\ One.data # Nil
       \/ One.processes = 0 /\ One.provides = 1 /\ One.locals = "unset"


\* C25: the default processor, given a valid model descriptor and nil data on a PUT
\* or a DELETE, fails with a 400 error, makes no save or delete call and leaves
\* storage as it was. (SpecProc)
C25_NilDataOnWriteIs400 ==
    [][(One.pc = "process" /\ One.locals = "ptr"
          /\ One.method \in {"PUT", "DELETE"} /\ One.data = Nil)
         => /\ One'.pc = "done"
            /\ One'.resp = [status |-> StatusBadRequest, body |-> Nil,
                            msg |-> IF One.method = "PUT" THEN "record not found"
                                    ELSE "no data to delete"]
            /\ One'.calls = <<>>
            /\ db' = db /\ nextId' = nextId]_vars

\* a PUT with a well-formed body and nil data was refused, on a table that has rows
C25_Witness ==
    /\ One.pc = "done" /\ One.method = "PUT" /\ One.body.wf /\ One.data = Nil
    /\ One.locals = "ptr" /\ One.processes = 1
    /\ One.resp.msg = "record not found" /\ db = StoredTable

\* C26: the default processor picks its behaviour by the HTTP method alone, whatever
\* operation slot it is configured in: only POST calls Create, only PUT calls Save,
\* only DELETE calls Delete, and with a valid model descriptor any other method
\* returns exactly the data it was given, with no error, no storage call and
\* storage unchanged. (SpecProc)
C26_MethodAloneSelects ==
    [][One.pc = "process" /\ One.locals = "ptr"
         => /\ \A i \in DOMAIN One'.calls :
                 One'.calls[i].fn = (IF One.method = "POST" THEN "Create"
                                     ELSE IF One.method = "PUT" THEN "Save"
                                     ELSE IF One.method = "DELETE" THEN "Delete"
                                     ELSE "none")
            /\ One.method \notin {"POST", "PUT", "DELETE"}
                 => /\ One'.pc = "respond"
                    /\ One'.result = One.data
                    /\ One'.err = NoErr
                    /\ One'.calls = <<>>
                    /\ db' = db /\ nextId' = nextId]_vars

\* a GET sitting in the delete slot, and a PATCH in the create slot, handed their
\* data on
C26_Witness ==
    /\ One.pc = "respond" /\ One.processes = 1 /\ One.locals = "ptr"
    /\ One.data = InstPtr(Rec1) /\ One.result = One.data /\ One.calls = <<>>
    /\ \/ One.method = "GET" /\ One.op = OperationDelete
       \/ One.method = "PATCH" /\ One.op = OperationCreate


\* C27: under the default wiring a POST to the collection path makes the provider
\* issue the list-all call before the processor's create call; when the list-all
\* call fails the response is 500 and no create call is made, however well-formed
\* the body is. (Spec)
C27_CreateListsFirst ==
    LET c == One.calls
    IN  /\ (One.method = "POST" /\ One.op # "" /\ One.provides = 1)
           => /\ One.op = OperationCreate
              /\ Len(c) >= 1 /\ Len(c) <= 2
              /\ c[1].fn = "Find"
              /\ Len(c) = 2 => c[1].err = "" /\ c[2].fn = "Create" /\ One.processes = 1
              /\ c[1].err # ""
                   => /\ One.pc = "done" /\ One.processes = 0 /\ Len(c) = 1
                      /\ One.resp = [status |-> StatusInternalServerError, body |-> Nil,
                                     msg |-> "failed to fetch records"]
        /\ (One.method = "POST" /\ One.processes = 1) => One.provides = 1

\* a POST with a well-formed body answered 500 after the failed list-all, and
\* nothing was created
C27_Witness ==
    /\ One.pc = "done" /\ One.method = "POST" /\ One.body.wf
    /\ Len(One.calls) = 1 /\ One.calls[1].fn = "Find" /\ One.calls[1].err = ErrOther
    /\ One.resp.status = StatusInternalServerError /\ db = EmptyTable

\* C28: under the default wiring a PUT to the item path for an identifier that is
\* not in storage is answered 404 by the provider's not-found error: the processor
\* is not invoked, no save call is made and no record is created; the processor's
\* 400 "record not found" never occurs on this path. (Spec)
C28_UpdateMissingIs404 ==
    /\ [][(One.pc = "provide" /\ One.method = "PUT" /\ db[One.id] = NoRec)
            => /\ One'.pc = "done" /\ One'.processes = 0
               /\ Len(One'.calls) = 1
               /\ One'.calls[1].fn = "First" /\ One'.calls[1].id = One.id
               /\ \/ /\ One'.calls[1].err = ErrRecordNotFound
                     /\ One'.resp = [status |-> StatusNotFound, body |-> Nil,
                                     msg |-> "record not found"]
                  \/ /\ One'.calls[1].err = ErrOther
                     /\ One'.resp = [status |-> StatusInternalServerError, body |-> Nil,
                                     msg |-> "database error"]
               /\ db' = db /\ nextId' = nextId]_vars
    /\ [](One.method = "PUT" /\ One.op # ""
            => /\ One.resp # [status |-> StatusBadRequest, body |-> Nil,
                              msg |-> "record not found"]
               /\ One.calls # <<>> /\ One.calls[1].err = ErrRecordNotFound
                    => One.pc = "done" /\ One.processes = 0 /\ Len(One.calls) = 1)

\* a PUT with a well-formed body for an identifier the table lacks, while it holds
\* another, was answered 404 and the table kept only that row
C28_Witness ==
    /\ One.pc = "done" /\ One.method = "PUT" /\ One.id = 2 /\ One.body.wf
    /\ One.resp.status = StatusNotFound /\ One.processes = 0
    /\ db[1] # NoRec /\ db[2] = NoRec

====
